---- MODULE Spec2Model ----
\* Model of src/src/server.py: the create_empath_journal_entry tool.
\* Strings the code inspects character by character (the two inputs, the
\* base URL, the timeout setting, the content type) are sequences of
\* characters or tokens; opaque texts (reasons, bodies, messages) are strings.
EXTENDS Integers, Sequences, FiniteSets, TLC

VARIABLES pc, text_journal, user_phone_number, base_url, endpoint,
          normalized_text, normalized_phone, validation_errors, payload,
          timeout_seconds, posts, upstream, failure, result, exception

vars == <<pc, text_journal, user_phone_number, base_url, endpoint,
          normalized_text, normalized_phone, validation_errors, payload,
          timeout_seconds, posts, upstream, failure, result, exception>>

\* ---------------------------------------------------------------- bounds
MaxTextLen == 2
MaxShortPhone == 3
MaxPhoneDigits == 15
MaxSlashes == 1

\* ------------------------------------------------------------ characters
\* "U+0662" is ARABIC-INDIC DIGIT TWO: a decimal digit (category Nd) that
\* is not one of 0-9.
Whitespace == {" "}
AsciiDigits == {"0", "1", "9"}
UnicodeDigits == AsciiDigits \cup {"U+0662"}
NonZeroAsciiDigits == {"1", "9"}

TextAlphabet == {" ", "a"}
PhoneAlphabet == {"+", "0", "1", "U+0662", "a", " "}

Strs(alphabet, n) == UNION {[1..k -> alphabet] : k \in 0..n}
Rep(c, n) == [i \in 1..n |-> c]
Range(s) == {s[i] : i \in 1..Len(s)}

\* str.strip(): drop leading and trailing whitespace characters.
RECURSIVE LStrip(_)
LStrip(s) == IF s # <<>> /\ Head(s) \in Whitespace THEN LStrip(Tail(s)) ELSE s

RECURSIVE RStrip(_)
RStrip(s) == IF s # <<>> /\ s[Len(s)] \in Whitespace
             THEN RStrip(SubSeq(s, 1, Len(s) - 1)) ELSE s

Strip(s) == RStrip(LStrip(s))

\* re.fullmatch(r"\+[1-9]\d{1,14}", s). The pattern is a str pattern with no
\* re.ASCII flag, so \d matches every Unicode decimal digit; the class [1-9]
\* is a range of literal characters.
MinMoreDigits == 1
MaxMoreDigits == 14

FullMatchE164(s) ==
    /\ Len(s) >= 2 + MinMoreDigits
    /\ Len(s) <= 2 + MaxMoreDigits
    /\ s[1] = "+"
    /\ s[2] \in NonZeroAsciiDigits
    /\ \A i \in 3..Len(s) : s[i] \in UnicodeDigits

TextReason == "Must be non-empty after trimming."
PhoneReason == "Must be E.164, e.g., +15551234567."
Reason(k) == IF k = "text_journal" THEN TextReason ELSE PhoneReason

\* Line 73: the empty error map.
NoErrors == [k \in {} |-> ""]

\* Lines 75-80: the two checks, each adding its own key.
ValidationErrors(ntext, nphone) ==
    [k \in (IF ntext = <<>> THEN {"text_journal"} ELSE {})
           \cup (IF ~FullMatchE164(nphone) THEN {"user_phone_number"} ELSE {})
        |-> Reason(k)]

\* Line 82: `if validation_errors:`.
HasErrors_text_only(errors) == "text_journal" \in DOMAIN errors
HasErrors(errors) == DOMAIN errors # {}

\* ------------------------------------------------------- configuration
\* os.environ.get(name, default): Unset stands for a variable that is absent.
Unset == <<"(unset)">>
EnvGet(value, default) == IF value = Unset THEN default ELSE value

DefaultBaseUrl == <<"https://app.empathdash.com">>
BaseUrlSettings == {Unset} \cup {<<"http://stub">> \o Rep("/", n) : n \in 0..MaxSlashes}

\* str.rstrip('/'): drop every trailing "/".
RECURSIVE RStripSlash(_)
RStripSlash(s) == IF s # <<>> /\ s[Len(s)] = "/"
                  THEN RStripSlash(SubSeq(s, 1, Len(s) - 1)) ELSE s

\* Lines 62-63.
Endpoint(setting) ==
    RStripSlash(EnvGet(setting, DefaultBaseUrl))
        \o <<"/api/journals/createTextEntryOrRegister">>

\* Lines 65-68.
Headers == [ContentType |-> "application/json", Accept |-> "application/json"]

\* Line 102: float(os.environ.get("EMPATH_TIMEOUT", "15")).
TimeoutDigits == {"1", "2", "5"}
DefaultTimeout == <<"1", "5">>
TimeoutSettings == {Unset, <<"2", ".", "5">>, <<"5", ".">>, <<"x">>, <<".">>, <<>>}

\* float() accepts, among these settings, digits with at most one "." and
\* at least one digit; anything else raises ValueError.
IsFloatLiteral(s) ==
    /\ Range(s) \subseteq TimeoutDigits \cup {"."}
    /\ Cardinality({i \in 1..Len(s) : s[i] = "."}) <= 1
    /\ \E i \in 1..Len(s) : s[i] \in TimeoutDigits

DotAt(s) == IF "." \in Range(s)
            THEN CHOOSE i \in 1..Len(s) : s[i] = "." ELSE Len(s) + 1
Float(s) == [whole |-> SubSeq(s, 1, DotAt(s) - 1),
             frac  |-> SubSeq(s, DotAt(s) + 1, Len(s))]
NoTimeout == [whole |-> <<>>, frac |-> <<>>]

\* --------------------------------------------------------- Python values
\* The values a response field can hold, in one shape: a str, a bool or a
\* dict whose items are <<key, value>> pairs.
PyStr(s) == [type |-> "str", str |-> s, items |-> {}]
PyBool(b) == [type |-> "bool", str |-> IF b THEN "true" ELSE "false", items |-> {}]
PyDict(items) == [type |-> "dict", str |-> "", items |-> items]

\* ------------------------------------------------------ upstream replies
Statuses == {200, 201, 299, 300, 402, 500}
\* <<>> is the "" that response.headers.get("content-type", "") gives when
\* the header is absent.
ContentTypes == {<<>>, <<"text/plain">>, <<"text/plain", "; charset=utf-8">>,
                 <<"application/json">>,
                 <<"application/json", "; charset=utf-8">>}

BodyCreated == "{\"message\":\"Text entry created\",\"journalId\":\"j1\"}"
BodyLimit == "{\"message\":\"Free limit reached\",\"limitReached\":true}"
BodyQuoted == "\"oops\""
BodyPlain == "oops"
BodyTruncated == "{\"message\":"
Bodies == {BodyCreated, BodyLimit, BodyQuoted, BodyPlain, BodyTruncated}

\* response.json(): json.loads of the body; raises on the bodies that are
\* not JSON documents.
JsonParses(body) == body \in {BodyCreated, BodyLimit, BodyQuoted}
JsonLoads(body) ==
    CASE body = BodyCreated ->
            PyDict({<<"message", PyStr("Text entry created")>>,
                    <<"journalId", PyStr("j1")>>})
      [] body = BodyLimit ->
            PyDict({<<"message", PyStr("Free limit reached")>>,
                    <<"limitReached", PyBool(TRUE)>>})
      [] body = BodyQuoted -> PyStr("oops")

NoResponse == [status_code |-> 0, content_type |-> <<>>, body |-> ""]

\* Line 113: "application/json" in content_type.
IndicatesJson(content_type) ==
    \E i \in 1..Len(content_type) : content_type[i] = "application/json"

\* Lines 111-118.
ResponseData_always_parse(content_type, body) ==
    IF JsonParses(body) THEN JsonLoads(body) ELSE PyStr(body)
ResponseData(content_type, body) ==
    IF IndicatesJson(content_type)
    THEN IF JsonParses(body) THEN JsonLoads(body) ELSE PyStr(body)
    ELSE PyStr(body)

\* Line 121: response.is_success.
IsSuccess_below_400(status) == status >= 200 /\ status < 400
IsSuccess(status) == status >= 200 /\ status <= 299

\* Line 127: the failures httpx.HTTPError covers, and str(e) of each.
HTTPErrors == {"ReadTimeout", "ConnectError", "ConnectError:DNS"}
StrOf(e) ==
    CASE e = "ReadTimeout" -> "The read operation timed out"
      [] e = "ConnectError" -> "[Errno 111] Connection refused"
      [] e = "ConnectError:DNS" -> "[Errno -2] Name or service not known"
\* Exceptions of httpx.post that are not httpx.HTTPError.
OtherErrors == {"InvalidURL"}

\* ------------------------------------------------------------- envelopes
NoResult == [none |-> TRUE]
NoPayload == [textJournal |-> <<>>, userPhoneNumber |-> <<>>]

\* Lines 97-100.
Payload(ntext, nphone) == [textJournal |-> ntext, userPhoneNumber |-> nphone]

\* Lines 83-95.
ValidationFailureEnvelope_raw(url, text, phone, errors) ==
    [ok |-> FALSE, status_code |-> 400, url |-> url,
     request_payload |-> [textJournal |-> text, userPhoneNumber |-> phone],
     response |-> PyDict({<<"message", PyStr("Invalid input")>>,
                          <<"errors", PyDict({})>>})]
ValidationFailureEnvelope(url, text, phone, errors) ==
    [ok |-> FALSE, status_code |-> 400, url |-> url,
     request_payload |-> [textJournal |-> Strip(text),
                          userPhoneNumber |-> Strip(phone)],
     response |-> PyDict({<<"message", PyStr("Invalid input")>>,
                          <<"errors",
                            PyDict({<<k, PyStr(errors[k])>> : k \in DOMAIN errors})>>})]

\* Lines 120-126.
CompletedEnvelope(url, pl, resp) ==
    [ok |-> IsSuccess(resp.status_code), status_code |-> resp.status_code,
     url |-> url, request_payload |-> pl,
     response |-> ResponseData(resp.content_type, resp.body)]

\* Lines 128-133.
TransportFailureEnvelope_with_status(url, pl, e) ==
    [ok |-> FALSE, status_code |-> 502, error |-> StrOf(e), url |-> url,
     request_payload |-> pl]
TransportFailureEnvelope(url, pl, e) ==
    [ok |-> FALSE, error |-> StrOf(e), url |-> url, request_payload |-> pl]

\* ---------------------------------------------------------------- inputs
Texts == Strs(TextAlphabet, MaxTextLen)
LongPhones ==
    {pre \o <<"+", first>> \o Rep("0", n) \o suf :
        pre \in {<<>>, <<" ">>}, first \in {"0", "1"},
        n \in (MaxMoreDigits - 1)..MaxPhoneDigits,
        suf \in {<<>>, <<" ">>, <<"a">>, <<"U+0662">>}}
Phones == Strs(PhoneAlphabet, MaxShortPhone) \cup LongPhones

\* ----------------------------------------------------------------- state
Init ==
    /\ pc = "idle"
    /\ text_journal = <<>>
    /\ user_phone_number = <<>>
    /\ base_url = Unset
    /\ endpoint = <<>>
    /\ normalized_text = <<>>
    /\ normalized_phone = <<>>
    /\ validation_errors = NoErrors
    /\ payload = NoPayload
    /\ timeout_seconds = NoTimeout
    /\ posts = <<>>
    /\ upstream = NoResponse
    /\ failure = "none"
    /\ result = NoResult
    /\ exception = "none"

\* Where control goes after the except clause of lines 127-133: the handler
\* returns.
AfterHTTPError_retry == "ready"
AfterHTTPError == "returned"

\* Lines 62-100: the tool is called with its two arguments; the endpoint is
\* computed, the inputs normalized and checked, and on a violation the
\* 400 envelope is returned at once. A behaviour is one invocation: the
\* function keeps nothing between calls.
Invoke(text, phone, setting) ==
    /\ pc = "idle"
    /\ text_journal' = text
    /\ user_phone_number' = phone
    /\ base_url' = setting
    /\ endpoint' = Endpoint(setting)
    /\ normalized_text' = Strip(text)
    /\ normalized_phone' = Strip(phone)
    /\ validation_errors' = ValidationErrors(Strip(text), Strip(phone))
    /\ posts' = <<>>
    /\ upstream' = NoResponse
    /\ failure' = "none"
    /\ exception' = "none"
    /\ timeout_seconds' = NoTimeout
    /\ IF HasErrors(validation_errors')
       THEN /\ pc' = "returned"
            /\ payload' = NoPayload
            /\ result' = ValidationFailureEnvelope(Endpoint(setting), text, phone,
                                                   validation_errors')
       ELSE /\ pc' = "validated"
            /\ payload' = Payload(Strip(text), Strip(phone))
            /\ result' = NoResult

\* Line 102: the timeout setting is read and converted; float() raises
\* ValueError outside any try block.
ReadTimeout(setting) ==
    /\ pc = "validated"
    /\ IF IsFloatLiteral(EnvGet(setting, DefaultTimeout))
       THEN /\ timeout_seconds' = Float(EnvGet(setting, DefaultTimeout))
            /\ pc' = "ready"
            /\ exception' = exception
       ELSE /\ timeout_seconds' = timeout_seconds
            /\ pc' = "raised"
            /\ exception' = "ValueError"
    /\ UNCHANGED <<text_journal, user_phone_number, base_url, endpoint,
                   normalized_text, normalized_phone, validation_errors,
                   payload, posts, upstream, failure, result>>

\* Lines 104-109: httpx.post is called.
Post ==
    /\ pc = "ready"
    /\ posts' = Append(posts, [url |-> endpoint, json |-> payload,
                               headers |-> Headers, timeout |-> timeout_seconds])
    /\ pc' = "posted"
    /\ UNCHANGED <<text_journal, user_phone_number, base_url, endpoint,
                   normalized_text, normalized_phone, validation_errors,
                   payload, timeout_seconds, upstream, failure, result,
                   exception>>

\* Lines 111-126: the exchange completed with some status, content type
\* and body.
Completed(status, content_type, body) ==
    /\ pc = "posted"
    /\ upstream' = [status_code |-> status, content_type |-> content_type,
                    body |-> body]
    /\ result' = CompletedEnvelope(endpoint, payload, upstream')
    /\ pc' = "returned"
    /\ UNCHANGED <<text_journal, user_phone_number, base_url, endpoint,
                   normalized_text, normalized_phone, validation_errors,
                   payload, timeout_seconds, posts, failure, exception>>

\* Lines 127-133: httpx.post raised an httpx.HTTPError.
TransportFailure(e) ==
    /\ pc = "posted"
    /\ failure' = e
    /\ result' = TransportFailureEnvelope(endpoint, payload, e)
    /\ pc' = AfterHTTPError
    /\ UNCHANGED <<text_journal, user_phone_number, base_url, endpoint,
                   normalized_text, normalized_phone, validation_errors,
                   payload, timeout_seconds, posts, upstream, exception>>

\* Lines 104-127: httpx.post raised an exception that is no httpx.HTTPError;
\* no except clause matches and it leaves the function.
OtherFailure(e) ==
    /\ pc = "posted"
    /\ exception' = e
    /\ pc' = "raised"
    /\ UNCHANGED <<text_journal, user_phone_number, base_url, endpoint,
                   normalized_text, normalized_phone, validation_errors,
                   payload, timeout_seconds, posts, upstream, failure, result>>

\* Each disjunct tests the position first, so that the inputs are drawn
\* only where the step can happen.
Next ==
    \/ /\ pc = "idle"
       /\ \E text \in Texts, phone \in Phones, setting \in BaseUrlSettings :
             Invoke(text, phone, setting)
    \/ /\ pc = "validated"
       /\ \E setting \in TimeoutSettings : ReadTimeout(setting)
    \/ Post
    \/ /\ pc = "posted"
       /\ \E status \in Statuses, content_type \in ContentTypes, body \in Bodies :
             Completed(status, content_type, body)
    \/ /\ pc = "posted"
       /\ \E e \in HTTPErrors : TransportFailure(e)
    \/ /\ pc = "posted"
       /\ \E e \in OtherErrors : OtherFailure(e)

Spec == Init /\ [][Next]_vars


\* ---------------------------------------------------------------- claims
\* E.164 as the specification words it: "+", one digit 1-9, then 1 to 14
\* digits 0-9.
StrictE164(s) ==
    /\ Len(s) \in 3..16
    /\ s[1] = "+"
    /\ s[2] \in AsciiDigits \ {"0"}
    /\ \A i \in 3..Len(s) : s[i] \in AsciiDigits

Path == <<"/api/journals/createTextEntryOrRegister">>
CompletedKeys == {"ok", "status_code", "url", "request_payload", "response"}
FailureKeys == {"ok", "error", "url", "request_payload"}
ValidationFailed == pc # "idle" /\ DOMAIN validation_errors # {}
ExchangeCompleted == pc = "returned" /\ upstream # NoResponse

C2_PhoneValidIffStrictE164 ==
    pc # "idle" =>
        /\ ("user_phone_number" \notin DOMAIN validation_errors)
              <=> StrictE164(Strip(user_phone_number))
        /\ "user_phone_number" \in DOMAIN validation_errors =>
              validation_errors["user_phone_number"]
                 = "Must be E.164, e.g., +15551234567."

\* C3: no invocation raises an exception past the operation boundary.
C3_NeverRaises == pc # "raised"

\* C4: the error map has text_journal iff the trimmed text is empty and
\* user_phone_number iff the trimmed phone fails E.164, each regardless of
\* the other, and is non-empty iff validation failed.
C4_IndependentChecks ==
    pc # "idle" =>
        /\ ("text_journal" \in DOMAIN validation_errors)
              <=> Strip(text_journal) = <<>>
        /\ "text_journal" \in DOMAIN validation_errors =>
              validation_errors["text_journal"] = "Must be non-empty after trimming."
        /\ ("user_phone_number" \in DOMAIN validation_errors)
              <=> ~StrictE164(Strip(user_phone_number))
        /\ (DOMAIN validation_errors # {})
              <=> (Strip(text_journal) = <<>> \/ ~StrictE164(Strip(user_phone_number)))

\* C5: when validation fails the envelope is exactly ok false, status 400,
\* the computed endpoint, the trimmed inputs and {message, errors}, with no
\* error field.
C5_ValidationFailureEnvelope ==
    (pc = "returned" /\ ValidationFailed) =>
        /\ result =
              [ok |-> FALSE, status_code |-> 400,
               url |-> RStripSlash(EnvGet(base_url, DefaultBaseUrl)) \o Path,
               request_payload |->
                   [textJournal |-> Strip(text_journal),
                    userPhoneNumber |-> Strip(user_phone_number)],
               response |->
                   PyDict({<<"message", PyStr("Invalid input")>>,
                           <<"errors",
                             PyDict({<<k, PyStr(validation_errors[k])>> :
                                        k \in DOMAIN validation_errors})>>})]
        /\ "error" \notin DOMAIN result
C5_Witness ==
    /\ pc = "returned"
    /\ text_journal = <<" ">>
    /\ user_phone_number = <<" ", "a">>
    /\ DOMAIN validation_errors = {"text_journal", "user_phone_number"}
    /\ result.status_code = 400

\* C6: after a completed exchange ok is true iff the upstream status is in
\* 200..299, status_code is the upstream status, and the body is kept in
\* response in the completed shape, whatever the status.
C6_StatusPassThrough ==
    ExchangeCompleted =>
        /\ DOMAIN result = CompletedKeys
        /\ result.ok <=> upstream.status_code \in 200..299
        /\ result.status_code = upstream.status_code
        /\ \/ result.response = PyStr(upstream.body)
           \/ JsonParses(upstream.body) /\ result.response = JsonLoads(upstream.body)
C6_Witness ==
    /\ ExchangeCompleted
    /\ upstream.status_code = 402
    /\ upstream.body = BodyLimit
    /\ result.ok = FALSE
    /\ result.response = JsonLoads(BodyLimit)

\* C7: after a completed exchange response is the parsed JSON when the
\* content type names JSON and the body parses, the raw text when it names
\* JSON and the body does not parse, and the raw text, unparsed, when it
\* does not name JSON; the completed envelope is returned in each case.
C7_ResponseByContentType ==
    ExchangeCompleted =>
        /\ DOMAIN result = CompletedKeys
        /\ ("application/json" \in Range(upstream.content_type)
               /\ JsonParses(upstream.body))
              => result.response = JsonLoads(upstream.body)
        /\ ("application/json" \in Range(upstream.content_type)
               /\ ~JsonParses(upstream.body))
              => result.response = PyStr(upstream.body)
        /\ "application/json" \notin Range(upstream.content_type)
              => result.response = PyStr(upstream.body)
C7_Witness ==
    /\ ExchangeCompleted
    /\ upstream.content_type = <<"application/json">>
    /\ upstream.body = BodyTruncated
    /\ result.response = PyStr(BodyTruncated)

\* C8: a transport failure is returned as exactly {ok false, error, url,
\* request_payload}, and every returned envelope has either the completed
\* keys or the failure keys.
C8_TransportFailureEnvelope ==
    /\ failure # "none" =>
          /\ pc = "returned"
          /\ result = [ok |-> FALSE, error |-> StrOf(failure),
                       url |-> posts[1].url, request_payload |-> posts[1].json]
    /\ pc = "returned" => DOMAIN result \in {CompletedKeys, FailureKeys}
C8_Witness ==
    /\ pc = "returned"
    /\ failure = "ReadTimeout"
    /\ result.error = "The read operation timed out"

\* C9: an invocation issues at most one POST, whatever the outcome.
C9_AtMostOnePost == Len(posts) <= 1
C9_Witness ==
    /\ pc = "returned"
    /\ failure # "none"
    /\ Len(posts) = 1

\* C10: the body of a POST is exactly the trimmed text and phone, the text
\* non-empty and the phone E.164, and the envelope returned afterwards
\* carries that same body as request_payload.
C10_PayloadValidAndEchoed ==
    posts # <<>> =>
        /\ posts[1].json = [textJournal |-> Strip(text_journal),
                            userPhoneNumber |-> Strip(user_phone_number)]
        /\ posts[1].json.textJournal # <<>>
        /\ StrictE164(posts[1].json.userPhoneNumber)
        /\ pc = "returned" => result.request_payload = posts[1].json

====
